---- MODULE Spec2Model ----
(***************************************************************************)
(* A model of the field-accessor engine of field_access_proxy.h: Field,   *)
(* BitField / BoolField, Constant and FlexibleArrayField applied to a     *)
(* packed record (the Packet of tests/c_style_tests.cpp).                  *)
(*                                                                         *)
(* An accessor is a descriptor value (a record of its private members);   *)
(* Get and Set are operators over a descriptor and a record value.  Each  *)
(* public call is one action; `last` remembers the call just made (its    *)
(* accessor, argument, result and the record before it), which lets the   *)
(* contracts be stated as state predicates.                               *)
(***************************************************************************)
EXTENDS Integers, Sequences, FiniteSets, TLC

VARIABLES obj, last, trapped, threads

vars == <<obj, last, trapped, threads>>

RECURSIVE Get(_, _), Set(_, _, _), byteswap(_, _)

(***************************************************************************)
(* Bounds of the model.                                                    *)
(***************************************************************************)
\* Elements of storage behind first_item (Packet::max_items in the tests).
MaxItems == 3

(***************************************************************************)
(* Program constants.                                                      *)
(***************************************************************************)
CHAR_BIT == 8

\* std::endian::native of the build, and the other one (tests/endian.h).
native == "little"

GetOppositeEndian == IF native = "little" THEN "big" ELSE "little"

(***************************************************************************)
(* Integral helpers.                                                       *)
(***************************************************************************)
\* A conversion that saturates instead of wrapping.
Narrow_Saturates(x, bits) == IF x >= 2 ^ bits THEN (2 ^ bits) - 1 ELSE x

\* static_cast to an unsigned integral type of `bits` bits.
Narrow(x, bits) == x % (2 ^ bits)

\* std::byteswap on a value of `bits` bits: reverses its bytes.
byteswap(x, bits) ==
    IF bits <= CHAR_BIT
    THEN x
    ELSE (x % (2 ^ CHAR_BIT)) * (2 ^ (bits - CHAR_BIT))
         + byteswap(x \div (2 ^ CHAR_BIT), bits - CHAR_BIT)

(***************************************************************************)
(* Bit Ops collaborator (bit_manip): offsets count from the least          *)
(* significant bit.                                                        *)
(***************************************************************************)
GetBits(x, offset, width) == (x \div (2 ^ offset)) % (2 ^ width)

SetBits(x, value, offset, width) ==
    x - GetBits(x, offset, width) * (2 ^ offset)
      + (value % (2 ^ width)) * (2 ^ offset)

IsBitSet(x, pos) == GetBits(x, pos, 1) = 1

SetBit(x, pos) == SetBits(x, 1, pos, 1)

ClearBit(x, pos) == SetBits(x, 0, pos, 1)

(***************************************************************************)
(* Accessor descriptors (the objects built by the Make... factories).      *)
(***************************************************************************)
\* MakeField(name, &Struct::field) of a non-integral member.
MakeField(name, field) ==
    [kind |-> "Field", name |-> name, field |-> field, integral |-> FALSE,
     bits |-> 0, endian |-> native]

\* MakeField(name, &Struct::field[, endian]) of an unsigned integral member.
MakeIntegralField(name, field, bits, endian) ==
    [kind |-> "Field", name |-> name, field |-> field, integral |-> TRUE,
     bits |-> bits, endian |-> endian]

\* MakeBitField<Parent, Target>(name, parent, offset, width).
MakeBitField(name, parent, targetBits, offset, width) ==
    [kind |-> "BitField", name |-> name, parent |-> parent, isBool |-> FALSE,
     bits |-> targetBits, bit_offset |-> offset, bit_width |-> width]

\* MakeBoolField(name, parent, bit_pos).
MakeBoolField(name, parent, bit_pos) ==
    [kind |-> "BitField", name |-> name, parent |-> parent, isBool |-> TRUE,
     bits |-> 1, bit_offset |-> bit_pos, bit_width |-> 1]

\* MakeConstant(val) of an unsigned integral value.
MakeConstant(val) == [kind |-> "Constant", val |-> val]

\* MakeFlexibleArrayField(name, &Struct::first_item, count, min_fixed_count).
MakeFlexibleArrayField(name, count, min_fixed_count) ==
    [kind |-> "FlexibleArrayField", name |-> name, count |-> count,
     min_fixed_count |-> min_fixed_count]

(***************************************************************************)
(* Field                                                                   *)
(***************************************************************************)
\* Field::Get without the byte swap of a non-native field.
Field_Get_NoSwap(a, o) == o[a.field]

Field_Get(a, o) ==
    IF a.integral
    THEN IF a.endian = native THEN o[a.field] ELSE byteswap(o[a.field], a.bits)
    ELSE o[a.field]

\* Field::Set without the byte swap of a non-native field.
Field_Set_NoSwap(a, o, val) ==
    IF a.integral
    THEN [o EXCEPT ![a.field] = Narrow(val, a.bits)]
    ELSE [o EXCEPT ![a.field] = val]

Field_Set(a, o, val) ==
    IF a.integral
    THEN [o EXCEPT ![a.field] =
            IF a.endian = native
            THEN Narrow(val, a.bits)
            ELSE byteswap(Narrow(val, a.bits), a.bits)]
    ELSE [o EXCEPT ![a.field] = val]

(***************************************************************************)
(* BitField / BoolField                                                    *)
(***************************************************************************)
\* BitField::Get reading the range from bit 0 instead of bit_offset.
BitField_Get_NoOffset(a, o) ==
    LET field == Get(a.parent, o)
    IN  IF a.isBool
        THEN IsBitSet(field, a.bit_offset)
        ELSE Narrow(GetBits(field, 0, a.bit_width), a.bits)

BitField_Get(a, o) ==
    LET field == Get(a.parent, o)
    IN  IF a.isBool
        THEN IsBitSet(field, a.bit_offset)
        ELSE Narrow(GetBits(field, a.bit_offset, a.bit_width), a.bits)

\* BitField::Set writing the shifted value without reading the parent.
BitField_Set_Overwrite(a, o, val) ==
    LET field == Get(a.parent, o)
        changed ==
            IF a.isBool
            THEN IF val THEN SetBit(field, a.bit_offset)
                        ELSE ClearBit(field, a.bit_offset)
            ELSE SetBits(0, Narrow(val, a.parent.bits),
                         a.bit_offset, a.bit_width)
    IN  Set(a.parent, o, changed)

\* BitField::Set whose boolean branch clears the whole parent on false.
BitField_Set_ClearsAll(a, o, val) ==
    LET field == Get(a.parent, o)
        changed ==
            IF a.isBool
            THEN IF val THEN SetBit(field, a.bit_offset) ELSE 0
            ELSE SetBits(field, Narrow(val, a.parent.bits),
                         a.bit_offset, a.bit_width)
    IN  Set(a.parent, o, changed)

BitField_Set(a, o, val) ==
    LET field == Get(a.parent, o)
        changed ==
            IF a.isBool
            THEN IF val THEN SetBit(field, a.bit_offset)
                        ELSE ClearBit(field, a.bit_offset)
            ELSE SetBits(field, Narrow(val, a.parent.bits),
                         a.bit_offset, a.bit_width)
    IN  Set(a.parent, o, changed)

(***************************************************************************)
(* Constant                                                                *)
(***************************************************************************)
\* Constant::Get reading the count stored in the record.
Constant_Get_ReadsRecord(a, o) ==
    byteswap(o.opposite_endian_item_count, 16)

Constant_Get(a, o) == a.val

\* Constant::Set storing the value in the record as a count Field would.
Constant_Set_Stores(a, o, val) ==
    [o EXCEPT !.opposite_endian_item_count = byteswap(Narrow(val, 16), 16)]

Constant_Set(a, o, val) == o

(***************************************************************************)
(* a.Get(obj) / a.Set(obj, val) for a scalar accessor of any class (the    *)
(* calls parent_.Get, parent_.Set, count_.Get and count_.Set).             *)
(***************************************************************************)
Get(a, o) ==
    CASE a.kind = "Field" -> Field_Get(a, o)
      [] a.kind = "BitField" -> BitField_Get(a, o)
      [] a.kind = "Constant" -> Constant_Get(a, o)

Set(a, o, val) ==
    CASE a.kind = "Field" -> Field_Set(a, o, val)
      [] a.kind = "BitField" -> BitField_Set(a, o, val)
      [] a.kind = "Constant" -> Constant_Set(a, o, val)

(***************************************************************************)
(* FlexibleArrayField.  obj.items is the storage that starts at the        *)
(* locator: items[1] is first_item[0], items[i + 1] the i-th trailing      *)
(* element (PacketItems::remain_items), so position pos is items[pos + 1]. *)
(* The operations with assertions yield [trap, val]: trap tells that an    *)
(* assert failed (the program aborts there), val is the returned value,    *)
(* or for SetAt the record after the call.                                 *)
(***************************************************************************)
Returned(val) == [trap |-> FALSE, val |-> val]

AssertFailed(val) == [trap |-> TRUE, val |-> val]

\* What GetAt yields when it returns no element.
NoItem == "none"

\* The range [base, base + count).
ReadItems(o, count) == SubSeq(o.items, 1, count)

\* The copy storing the elements in the opposite order.
CopyItems_Reversed(o, vals) ==
    [o EXCEPT !.items =
        [i \in 1 .. Len(vals) |-> vals[Len(vals) + 1 - i]]
            \o SubSeq(o.items, Len(vals) + 1, Len(o.items))]

\* std::ranges::copy(vals, base): the caller provides the capacity.
CopyItems(o, vals) ==
    [o EXCEPT !.items = vals \o SubSeq(o.items, Len(vals) + 1, Len(o.items))]

\* GetAll treating a single element as none.
GetAll_SkipsSingle(a, o) ==
    LET total_count == Get(a.count, o)
    IN  IF ~(total_count >= a.min_fixed_count)
        THEN AssertFailed(<<>>)
        ELSE LET count == total_count - a.min_fixed_count
             IN  IF count > 1
                 THEN Returned(ReadItems(o, count))
                 ELSE Returned(<<>>)

GetAll(a, o) ==
    LET total_count == Get(a.count, o)
    IN  IF ~(total_count >= a.min_fixed_count)
        THEN AssertFailed(<<>>)
        ELSE LET count == total_count - a.min_fixed_count
             IN  IF count > 0
                 THEN Returned(ReadItems(o, count))
                 ELSE Returned(<<>>)

\* GetAt checking pos against the storage instead of the logical count.
GetAt_ChecksCapacity(a, o, pos) ==
    LET total_count == Get(a.count, o)
    IN  IF ~(total_count >= a.min_fixed_count)
        THEN AssertFailed(NoItem)
        ELSE IF ~(pos < Len(o.items))
             THEN AssertFailed(NoItem)
             ELSE Returned(o.items[pos + 1])

GetAt(a, o, pos) ==
    LET total_count == Get(a.count, o)
    IN  IF ~(total_count >= a.min_fixed_count)
        THEN AssertFailed(NoItem)
        ELSE LET count == total_count - a.min_fixed_count
             IN  IF ~(pos < count)
                 THEN AssertFailed(NoItem)
                 ELSE Returned(o.items[pos + 1])

\* SetAll writing the count without the baseline.
SetAll_DropsBaseline(a, o, vals, update_count) ==
    LET copied == CopyItems(o, vals)
    IN  IF update_count
        THEN Set(a.count, copied, Len(vals))
        ELSE copied

\* SetAll updating the count whatever update_count is.
SetAll_AlwaysUpdates(a, o, vals, update_count) ==
    Set(a.count, CopyItems(o, vals), Len(vals) + a.min_fixed_count)

SetAll(a, o, vals, update_count) ==
    LET copied == CopyItems(o, vals)
    IN  IF update_count
        THEN Set(a.count, copied, Len(vals) + a.min_fixed_count)
        ELSE copied

\* SetAt writing the first element whatever pos is.
SetAt_IgnoresPos(a, o, pos, elem) ==
    LET total_count == Get(a.count, o)
    IN  IF ~(total_count >= a.min_fixed_count)
        THEN AssertFailed(o)
        ELSE LET count == total_count - a.min_fixed_count
             IN  IF ~(pos < count)
                 THEN AssertFailed(o)
                 ELSE Returned([o EXCEPT !.items[1] = elem])

\* SetAt writing the element before it checks the count.
SetAt_WritesBeforeAssert(a, o, pos, elem) ==
    LET total_count == Get(a.count, o)
        written ==
            IF pos < Len(o.items)
            THEN [o EXCEPT !.items[pos + 1] = elem]
            ELSE o
    IN  IF ~(total_count >= a.min_fixed_count)
        THEN AssertFailed(written)
        ELSE LET count == total_count - a.min_fixed_count
             IN  IF ~(pos < count) THEN AssertFailed(o) ELSE Returned(written)

SetAt(a, o, pos, elem) ==
    LET total_count == Get(a.count, o)
    IN  IF ~(total_count >= a.min_fixed_count)
        THEN AssertFailed(o)
        ELSE LET count == total_count - a.min_fixed_count
             IN  IF ~(pos < count)
                 THEN AssertFailed(o)
                 ELSE Returned([o EXCEPT !.items[pos + 1] = elem])

FlexibleArrayField_Get(a, o) == GetAll(a, o)

FlexibleArrayField_Set(a, o, vals) == SetAll(a, o, vals, TRUE)

(***************************************************************************)
(* The accessors of the model: those of tests/c_style_tests.cpp (vt::),    *)
(* and further ones over the same members that cover the other             *)
(* constructor arguments (byte order, Target narrower than the bit range,  *)
(* a one-byte count, a non-zero min_fixed_count).                          *)
(***************************************************************************)
type == MakeField("The type", "type")

version == MakeIntegralField("The version", "major_minor_verions", 16, native)

version_swapped ==
    MakeIntegralField("The swapped version", "major_minor_verions", 16,
                      GetOppositeEndian)

opposite_endian_item_count ==
    MakeIntegralField("The number of items", "opposite_endian_item_count", 16,
                      GetOppositeEndian)

byte_item_count ==
    MakeIntegralField("The byte count", "byte_item_count", CHAR_BIT, native)

\* Target is left to its default, the parent's Value (std::uint16_t).
major_version ==
    MakeBitField("The major version", version, 16, CHAR_BIT, CHAR_BIT)

minor_version ==
    MakeBitField("The minor version", version, 16, 0, CHAR_BIT)

patch_version == MakeBitField("The patch nibble", version, CHAR_BIT, 4, 4)

narrowed_version ==
    MakeBitField("The narrowed version", version, CHAR_BIT, 4, 12)

major_version_swapped ==
    MakeBitField("The swapped major version", version_swapped, CHAR_BIT,
                 CHAR_BIT, CHAR_BIT)

is_version_first_bit_set ==
    MakeBoolField("Whether the first bit of the version is set", version, 0)

is_swapped_last_bit_set ==
    MakeBoolField("Whether the last bit of the swapped version is set",
                  version_swapped, 15)

\* Bit-fields whose parent is a bit-field: B (o2, w2) over P (o1, w1) with
\* o2 + w2 <= w1 and within the Value of P.
major_high_nibble ==
    MakeBitField("The high nibble of the major version", major_version,
                 CHAR_BIT, 4, 4)

major_low_nibble ==
    MakeBitField("The low nibble of the major version", major_version,
                 CHAR_BIT, 0, 4)

swapped_major_low_nibble ==
    MakeBitField("The low nibble of the swapped major version",
                 major_version_swapped, CHAR_BIT, 0, 4)

is_minor_last_bit_set ==
    MakeBoolField("Whether the last bit of the minor version is set",
                  minor_version, CHAR_BIT - 1)

narrowed_low_nibble ==
    MakeBitField("The low nibble of the narrowed version", narrowed_version,
                 CHAR_BIT, 0, 4)

max_items == MakeConstant(MaxItems)

flexible_items ==
    MakeFlexibleArrayField("Items", opposite_endian_item_count, 0)

fixed_flexible_items == MakeFlexibleArrayField("Items", max_items, 0)

fixed_tail_items == MakeFlexibleArrayField("Tail items", max_items, 1)

\* The baseline of byte_items: the count 2^8 is reached by two elements.
ByteBaseline == (2 ^ CHAR_BIT) - 2

byte_items == MakeFlexibleArrayField("Byte items", byte_item_count, ByteBaseline)

Fields == {type, version, version_swapped, opposite_endian_item_count}

BitFields ==
    {major_version, minor_version, patch_version, narrowed_version,
     major_version_swapped, is_version_first_bit_set, is_swapped_last_bit_set}

NestedBitFields ==
    {major_high_nibble, major_low_nibble, swapped_major_low_nibble,
     is_minor_last_bit_set, narrowed_low_nibble}

ConstantAccessors == {max_items}

FlexibleArrayFields ==
    {flexible_items, fixed_flexible_items, fixed_tail_items, byte_items}

(***************************************************************************)
(* Inputs of the calls.                                                    *)
(***************************************************************************)
\* The Item of the tests by default, and the one its Set test writes.
ItemList == <<"1234", "test">>

ItemValues == {ItemList[i] : i \in 1 .. Len(ItemList)}

\* FlexibleArray<Item> arguments that fit the storage of the record: for each
\* length, the cyclic sequences of item values from each starting value.
ItemSeqs ==
    {[i \in 1 .. n |-> ItemList[((i + s) % Len(ItemList)) + 1]] :
        n \in 0 .. MaxItems, s \in 1 .. Len(ItemList)}

Positions == 0 .. MaxItems

TypeValues == {"type", "test"}

\* 0x0000, 0x1234, 0xFFFF
WordValues == {0, 4660, 65535}

\* 0x00, 0xAA, 0xFF
ByteValues == {0, 170, 255}

FieldValues(a) == IF a.integral THEN WordValues ELSE TypeValues

BitFieldValues(a) == IF a.isBool THEN BOOLEAN ELSE ByteValues

\* 0x0, 0xA, 0xF
NibbleValues == {0, 10, 15}

NestedValues(a) == IF a.isBool THEN BOOLEAN ELSE NibbleValues

(***************************************************************************)
(* The record.  Packet of the tests, with its std::size_t count narrowed   *)
(* to 16 bits and a second, one-byte count member.                         *)
(***************************************************************************)
Packet(ver, n, items) ==
    [major_minor_verions |-> ver,
     type |-> "type",
     opposite_endian_item_count |-> byteswap(n, 16),
     byte_item_count |-> ByteBaseline + (IF n > 1 THEN 1 ELSE n),
     items |-> items]

DefaultItems == [i \in 1 .. MaxItems |-> ItemList[1]]

NoArg == "none"

NoCall == [op |-> "none", acc |-> max_items, arg |-> NoArg, ret |-> NoArg]

\* The call just made on the record `obj`.
Call(op, a, arg, ret) ==
    [op |-> op, acc |-> a, arg |-> arg, ret |-> ret, pre |-> obj]

\* No call is in progress on another thread.
NoThreads == <<>>

Init ==
    /\ obj \in {Packet(ver, MaxItems, DefaultItems) : ver \in WordValues}
    /\ last = NoCall @@ [pre |-> obj]
    /\ trapped = FALSE
    /\ threads = NoThreads

InitArray ==
    /\ obj \in {Packet(4660, n, items) :
                   n \in {0, MaxItems}, items \in [1 .. MaxItems -> ItemValues]}
    /\ last = NoCall @@ [pre |-> obj]
    /\ trapped = FALSE
    /\ threads = NoThreads

(***************************************************************************)
(* The calls on the scalar accessors.                                      *)
(***************************************************************************)
CallFieldGet ==
    /\ ~trapped
    /\ \E a \in Fields :
          last' = Call("Field::Get", a, NoArg, Field_Get(a, obj))
    /\ UNCHANGED <<obj, trapped, threads>>

CallFieldSet ==
    /\ ~trapped
    /\ \E a \in Fields : \E val \in FieldValues(a) :
          /\ obj' = Field_Set(a, obj, val)
          /\ last' = Call("Field::Set", a, val, NoArg)
    /\ UNCHANGED <<trapped, threads>>

CallBitFieldGet ==
    /\ ~trapped
    /\ \E a \in BitFields :
          last' = Call("BitField::Get", a, NoArg, BitField_Get(a, obj))
    /\ UNCHANGED <<obj, trapped, threads>>

CallBitFieldSet ==
    /\ ~trapped
    /\ \E a \in BitFields : \E val \in BitFieldValues(a) :
          /\ obj' = BitField_Set(a, obj, val)
          /\ last' = Call("BitField::Set", a, val, NoArg)
    /\ UNCHANGED <<trapped, threads>>

CallConstantGet ==
    /\ ~trapped
    /\ \E a \in ConstantAccessors :
          last' = Call("Constant::Get", a, NoArg, Constant_Get(a, obj))
    /\ UNCHANGED <<obj, trapped, threads>>

CallConstantSet ==
    /\ ~trapped
    /\ \E a \in ConstantAccessors : \E val \in WordValues :
          /\ obj' = Constant_Set(a, obj, val)
          /\ last' = Call("Constant::Set", a, val, NoArg)
    /\ UNCHANGED <<trapped, threads>>

(***************************************************************************)
(* The calls on the flexible array accessors.                              *)
(***************************************************************************)
CallGetAll ==
    /\ ~trapped
    /\ \E a \in FlexibleArrayFields :
          LET r == GetAll(a, obj)
          IN  /\ last' = Call("GetAll", a, NoArg, r.val)
              /\ trapped' = r.trap
    /\ UNCHANGED <<obj, threads>>

CallGetAt ==
    /\ ~trapped
    /\ \E a \in FlexibleArrayFields : \E pos \in Positions :
          LET r == GetAt(a, obj, pos)
          IN  /\ last' = Call("GetAt", a, [pos |-> pos], r.val)
              /\ trapped' = r.trap
    /\ UNCHANGED <<obj, threads>>

CallSetAll ==
    /\ ~trapped
    /\ \E a \in FlexibleArrayFields : \E vals \in ItemSeqs :
       \E update_count \in BOOLEAN :
          /\ obj' = SetAll(a, obj, vals, update_count)
          /\ last' = Call("SetAll", a,
                          [vals |-> vals, update_count |-> update_count], NoArg)
    /\ UNCHANGED <<trapped, threads>>

CallSetAt ==
    /\ ~trapped
    /\ \E a \in FlexibleArrayFields : \E pos \in Positions :
       \E elem \in ItemValues :
          LET r == SetAt(a, obj, pos, elem)
          IN  /\ obj' = r.val
              /\ last' = Call("SetAt", a, [pos |-> pos, elem |-> elem], NoArg)
              /\ trapped' = r.trap
    /\ UNCHANGED threads

CallGet ==
    /\ ~trapped
    /\ \E a \in FlexibleArrayFields :
          LET r == FlexibleArrayField_Get(a, obj)
          IN  /\ last' = Call("Get", a, NoArg, r.val)
              /\ trapped' = r.trap
    /\ UNCHANGED <<obj, threads>>

CallSet ==
    /\ ~trapped
    /\ \E a \in FlexibleArrayFields : \E vals \in ItemSeqs :
          /\ obj' = FlexibleArrayField_Set(a, obj, vals)
          /\ last' = Call("Set", a, [vals |-> vals, update_count |-> TRUE],
                          NoArg)
    /\ UNCHANGED <<trapped, threads>>

(***************************************************************************)
(* Specifications: the scalar accessors applied to a record, and the       *)
(* flexible array accessors applied to a record.                           *)
(***************************************************************************)
Next ==
    \/ CallFieldGet
    \/ CallFieldSet
    \/ CallBitFieldGet
    \/ CallBitFieldSet
    \/ CallConstantGet
    \/ CallConstantSet

Spec == Init /\ [][Next]_vars

NextArray ==
    \/ CallGetAll
    \/ CallGetAt
    \/ CallSetAll
    \/ CallSetAt
    \/ CallGet
    \/ CallSet

SpecArray == InitArray /\ [][NextArray]_vars

(***************************************************************************)
(* Helpers of the properties.                                              *)
(***************************************************************************)
RECURSIVE RootField(_)

\* The member of the record an accessor chain ends in.
RootField(a) == IF a.kind = "Field" THEN a.field ELSE RootField(a.parent)

\* Bit i of x, counted from the least significant bit.
Bit(x, i) == (x \div (2 ^ i)) % 2

\* A 16-bit value with its two bytes exchanged.
Swap16(x) == (x % 256) * 256 + (x \div 256)

\* Every member of the record other than m is as before the call.
OthersUnchanged(m) == \A f \in (DOMAIN obj) \ {m} : obj[f] = last.pre[f]

\* v is a valid value of the scalar accessor a.
ValidValue(a, v) ==
    IF a.kind = "BitField" /\ ~a.isBool
    THEN v < 2 ^ a.bit_width /\ v < 2 ^ a.bits
    ELSE TRUE

IsSetAllWithCount ==
    last.op \in {"SetAll", "Set"} /\ last.arg.update_count

(***************************************************************************)
(* Properties of the scalar accessors (specification Spec).                *)
(***************************************************************************)
\* C1: round trip.  Right after A.Set(r, v) of a Field or of a BitField /
\* BoolField over a Field of either byte order, with v valid for A,
\* A.Get(r) returns v, whatever r held before.
C1_RoundTrip ==
    (last.op \in {"Field::Set", "BitField::Set"}
        /\ ValidValue(last.acc, last.arg))
    => Get(last.acc, obj) = last.arg

C1_Witness ==
    /\ last.op = "BitField::Set"
    /\ last.acc = major_version_swapped
    /\ last.arg = 170
    /\ Get(last.acc, last.pre) = 255
    /\ Get(last.acc, obj) = 170

\* C2: bit isolation.  BitField.Set(r, v) with offset o and width w leaves
\* every bit of the parent's value outside [o, o + w) and every other member
\* of the record as it was; the range itself holds v (truncated to w bits).
\* So Sets of major (8, 8) and minor (0, 8) combine: the parent is
\* major * 256 + minor with the newly written half and the other half kept.
C2_BitIsolation ==
    (last.op = "BitField::Set" /\ ~last.acc.isBool)
    => LET a == last.acc
           before == Get(a.parent, last.pre)
           after == Get(a.parent, obj)
       IN  /\ \A i \in 0 .. (a.parent.bits - 1) :
                 (i < a.bit_offset \/ i >= a.bit_offset + a.bit_width)
                 => Bit(after, i) = Bit(before, i)
           /\ \A i \in 0 .. (a.bit_width - 1) :
                 Bit(after, a.bit_offset + i) = Bit(last.arg, i)
           /\ OthersUnchanged(RootField(a))
           /\ (a = minor_version
                 => after = Get(major_version, last.pre) * 256 + last.arg)
           /\ (a = major_version
                 => after = last.arg * 256 + Get(minor_version, last.pre))

\* major = 0xFF then minor = 0xAA on a zeroed parent gives 0xFFAA.
C2_Witness ==
    /\ last.op = "BitField::Set"
    /\ last.acc = minor_version
    /\ last.arg = 170
    /\ last.pre.major_minor_verions = 65280
    /\ obj.major_minor_verions = 65450

\* C3: byte order.  Set(r, x) of an integral Field stores x with its bytes
\* swapped exactly when the byte-order tag is not the native one, and x
\* itself otherwise; Get(r) applies the same conditional swap to the stored
\* value, so Get(r) = x after Set(r, x).
C3_ByteOrder ==
    /\ (last.op = "Field::Set" /\ last.acc.integral)
       => /\ obj[last.acc.field] =
                IF last.acc.endian # native
                THEN Swap16(last.arg)
                ELSE last.arg
          /\ Field_Get(last.acc, obj) = last.arg
    /\ (last.op = "Field::Get" /\ last.acc.integral)
       => last.ret =
             IF last.acc.endian # native
             THEN Swap16(obj[last.acc.field])
             ELSE obj[last.acc.field]

\* Set(r, 0x1234) through the non-native count field stores 0x3412.
C3_Witness ==
    /\ last.op = "Field::Set"
    /\ last.acc = opposite_endian_item_count
    /\ last.arg = 4660
    /\ obj.opposite_endian_item_count = 13330

\* C4: BitField.Get(r) of a non-boolean field is the bit_width bits from
\* bit_offset (from the least significant bit) of the parent accessor's
\* Get(r), modulo 2^bits(Target).  With the 16-bit member holding 0x1234:
\* (8, 8) reads 0x12 and (0, 8) reads 0x34 through the native parent, (8, 8)
\* reads 0x34 through the byte-swapped parent; setting (0, 8) to 0xAA makes
\* the member 0x12AA.
C4_BitFieldGet ==
    /\ (last.op = "BitField::Get" /\ ~last.acc.isBool)
       => LET a == last.acc
          IN  /\ last.ret =
                    ((Get(a.parent, obj) \div (2 ^ a.bit_offset))
                        % (2 ^ a.bit_width)) % (2 ^ a.bits)
              /\ (obj.major_minor_verions = 4660 /\ a = major_version)
                 => last.ret = 18
              /\ (obj.major_minor_verions = 4660 /\ a = minor_version)
                 => last.ret = 52
              /\ (obj.major_minor_verions = 4660 /\ a = major_version_swapped)
                 => last.ret = 52
    /\ (last.op = "BitField::Set" /\ ~last.acc.isBool)
       => ((last.acc = minor_version /\ last.arg = 170
               /\ last.pre.major_minor_verions = 4660)
           => obj.major_minor_verions = 4778)

\* Bits 4 .. 15 of 0x1234 are 0x123, which an 8-bit Target narrows to 0x23.
C4_Witness ==
    /\ last.op = "BitField::Get"
    /\ last.acc = narrowed_version
    /\ obj.major_minor_verions = 4660
    /\ last.ret = 35

\* C5: BoolField.  Set(r, true) sets and Set(r, false) clears the bit at
\* bit_pos of the parent's value, Get(r) then returns the value written, and
\* every other bit of the parent and every other member of the record is
\* unchanged.  Get(r) tells whether bit bit_pos of the parent's value is set.
C5_BoolField ==
    /\ (last.op = "BitField::Set" /\ last.acc.isBool)
       => LET a == last.acc
              before == Get(a.parent, last.pre)
              after == Get(a.parent, obj)
          IN  /\ Get(a, obj) = last.arg
              /\ Bit(after, a.bit_offset) = (IF last.arg THEN 1 ELSE 0)
              /\ \A i \in (0 .. (a.parent.bits - 1)) \ {a.bit_offset} :
                    Bit(after, i) = Bit(before, i)
              /\ OthersUnchanged(RootField(a))
    /\ (last.op = "BitField::Get" /\ last.acc.isBool)
       => last.ret = (Bit(Get(last.acc.parent, obj), last.acc.bit_offset) = 1)

\* Clearing bit 15 of the byte-swapped 0xFFFF leaves 0x7FFF, stored 0xFF7F.
C5_Witness ==
    /\ last.op = "BitField::Set"
    /\ last.acc = is_swapped_last_bit_set
    /\ last.arg = FALSE
    /\ last.pre.major_minor_verions = 65535
    /\ obj.major_minor_verions = 65407

\* C9: Constant.  Constant(v).Get(r) is v in every state, whatever was
\* written to r through the other accessors and whatever was passed to
\* Constant(v).Set; Constant.Set leaves the whole record unchanged.
C9_Constant ==
    /\ \A c \in ConstantAccessors : Get(c, obj) = c.val
    /\ last.op = "Constant::Get" => last.ret = last.acc.val
    /\ last.op = "Constant::Set" => obj = last.pre

C9_Witness ==
    /\ last.op = "Constant::Set"
    /\ last.arg # last.acc.val
    /\ obj.opposite_endian_item_count # byteswap(last.acc.val, 16)
    /\ obj.type = "test"
    /\ Get(last.acc, obj) = MaxItems

(***************************************************************************)
(* Properties of the flexible array accessors (specification SpecArray).   *)
(***************************************************************************)
\* C6: GetAll / GetAt.  With min_fixed_count = k and the count c read
\* through the count accessor (byte-order normalized, or the constant),
\* c >= k: GetAll(r) returns exactly c - k elements, the elements of the
\* record at positions 0 .. c - k - 1 in order (none when c = k), and
\* GetAt(r, pos) with pos < c - k returns the element at position pos, which
\* is GetAll(r)[pos].
C6_GetAll ==
    LET a == last.acc
        k == a.min_fixed_count
        c == Get(a.count, obj)
    IN  /\ (last.op \in {"GetAll", "Get"} /\ c >= k)
           => /\ ~trapped
              /\ Len(last.ret) = c - k
              /\ \A i \in 1 .. (c - k) : last.ret[i] = obj.items[i]
              /\ (c = k => last.ret = <<>>)
        /\ (last.op = "GetAt" /\ c >= k /\ last.arg.pos < c - k)
           => /\ ~trapped
              /\ last.ret = obj.items[last.arg.pos + 1]
              /\ last.ret = GetAll(a, obj).val[last.arg.pos + 1]

\* The stored count 0x0200 is 2 once normalized: two elements, in order.
C6_Witness ==
    /\ last.op = "GetAll"
    /\ last.acc = flexible_items
    /\ obj.opposite_endian_item_count = 512
    /\ Len(last.ret) = 2
    /\ last.ret[1] # last.ret[2]
    /\ last.ret = <<obj.items[1], obj.items[2]>>

\* C7 as stated: after SetAll(r, values, true), whatever the count accessor,
\* count_accessor.Get(r) = values.size() + min_fixed_count.
C7_CountAfterSetAll_Original ==
    IsSetAllWithCount
    => Get(last.acc.count, obj)
          = Len(last.arg.vals) + last.acc.min_fixed_count

\* C7 as amended: after SetAll(r, values, true) with a count accessor that is
\* a w-bit Field, count_accessor.Get(r) = (values.size() + min_fixed_count)
\* mod 2^w, which is values.size() + min_fixed_count when that fits w bits.
C7_CountAfterSetAll ==
    (IsSetAllWithCount /\ last.acc.count.kind = "Field")
    => LET sum == Len(last.arg.vals) + last.acc.min_fixed_count
           w == last.acc.count.bits
       IN  /\ Get(last.acc.count, obj) = sum % (2 ^ w)
           /\ (sum < 2 ^ w => Get(last.acc.count, obj) = sum)

\* One element with the baseline 254 gives the count 255.
C7_Witness ==
    /\ last.op = "SetAll"
    /\ last.arg.update_count
    /\ last.acc = byte_items
    /\ Len(last.arg.vals) = 1
    /\ last.pre.byte_item_count = 254
    /\ Get(byte_item_count, obj) = 255

\* C8: with the count accessor Constant(v), SetAll(r, values, true) copies
\* the elements and writes no count: the count accessor still returns v, no
\* member other than the array changes, and GetAll(r) afterwards returns
\* v - min_fixed_count elements whatever values.size() is.
C8_ConstantCount ==
    (IsSetAllWithCount /\ last.acc.count.kind = "Constant")
    => LET a == last.acc
           vals == last.arg.vals
       IN  /\ SubSeq(obj.items, 1, Len(vals)) = vals
           /\ Get(a.count, obj) = a.count.val
           /\ OthersUnchanged("items")
           /\ ~GetAll(a, obj).trap
           /\ Len(GetAll(a, obj).val) = a.count.val - a.min_fixed_count

C8_Witness ==
    /\ last.op = "SetAll"
    /\ last.arg.update_count
    /\ last.acc = fixed_tail_items
    /\ Len(last.arg.vals) = 1
    /\ last.pre.items[1] # last.arg.vals[1]
    /\ obj.items[1] = last.arg.vals[1]
    /\ Len(GetAll(last.acc, obj).val) = MaxItems - 1

\* C10: SetAll(r, values, false) copies values to positions
\* 0 .. values.size() - 1 and leaves the count as it was: the count accessor
\* returns what it returned before the call, and no member other than the
\* array changes.
C10_SetAllKeepsCount ==
    (last.op = "SetAll" /\ ~last.arg.update_count)
    => /\ SubSeq(obj.items, 1, Len(last.arg.vals)) = last.arg.vals
       /\ Get(last.acc.count, obj) = Get(last.acc.count, last.pre)
       /\ OthersUnchanged("items")

\* The count stays MaxItems although a single element was written.
C10_Witness ==
    /\ last.op = "SetAll"
    /\ ~last.arg.update_count
    /\ last.acc = flexible_items
    /\ Len(last.arg.vals) = 1
    /\ last.pre.items[1] # last.arg.vals[1]
    /\ obj.items[1] = last.arg.vals[1]
    /\ Get(last.acc.count, obj) = MaxItems

\* C11: SetAt(r, pos, value) with pos below the logical count overwrites
\* the element at position pos and nothing else: GetAt(r, pos) then returns
\* value, every other element, the count and every other member of the
\* record are as before.
C11_SetAt ==
    (last.op = "SetAt"
        /\ Get(last.acc.count, last.pre) >= last.acc.min_fixed_count
        /\ last.arg.pos
             < Get(last.acc.count, last.pre) - last.acc.min_fixed_count)
    => /\ ~trapped
       /\ GetAt(last.acc, obj, last.arg.pos) = Returned(last.arg.elem)
       /\ obj.items[last.arg.pos + 1] = last.arg.elem
       /\ \A i \in (1 .. Len(obj.items)) \ {last.arg.pos + 1} :
             obj.items[i] = last.pre.items[i]
       /\ Len(obj.items) = Len(last.pre.items)
       /\ Get(last.acc.count, obj) = Get(last.acc.count, last.pre)
       /\ OthersUnchanged("items")

\* Position 1 is the first trailing element; it alone changes.
C11_Witness ==
    /\ last.op = "SetAt"
    /\ ~trapped
    /\ last.acc = flexible_items
    /\ last.arg.pos = 1
    /\ last.pre.items[2] # last.arg.elem
    /\ obj.items[2] = last.arg.elem
    /\ obj.items[1] # last.arg.elem

\* C12: count invariant.  From a record whose raw count is at least
\* min_fixed_count, no sequence of operations of a FlexibleArrayField brings
\* the count read through its count accessor below min_fixed_count.
C12_CountInvariant ==
    \A a \in FlexibleArrayFields : Get(a.count, obj) >= a.min_fixed_count

\* C15: a raw count below the baseline is trapped.  GetAll (Get), GetAt and
\* SetAt called on a record whose count is below min_fixed_count fail the
\* count assertion: the program stops there, no value is returned and the
\* record is as before the call.
C15_CountBelowBaseline ==
    (last.op \in {"GetAll", "Get", "GetAt", "SetAt"}
        /\ Get(last.acc.count, last.pre) < last.acc.min_fixed_count)
    => /\ trapped
       /\ obj = last.pre
       /\ (last.op \in {"GetAll", "Get"} => last.ret = <<>>)
       /\ (last.op = "GetAt" => last.ret = NoItem)

\* The one-byte count wrapped to 0, below the baseline 254.
C15_Witness ==
    /\ last.op = "SetAt"
    /\ last.acc = byte_items
    /\ Get(byte_item_count, last.pre) = 0
    /\ last.arg.pos = 0
    /\ last.pre.items[1] # last.arg.elem
    /\ trapped

\* C16: a position out of range is trapped.  GetAt(r, pos) and
\* SetAt(r, pos, value) with pos at or above the logical count (any pos when
\* the logical count is 0) fail the position assertion; GetAt returns no
\* element and SetAt leaves the record as it was.
C16_PositionOutOfRange ==
    (last.op \in {"GetAt", "SetAt"}
        /\ Get(last.acc.count, last.pre) >= last.acc.min_fixed_count
        /\ last.arg.pos
             >= Get(last.acc.count, last.pre) - last.acc.min_fixed_count)
    => /\ trapped
       /\ obj = last.pre
       /\ (last.op = "GetAt" => last.ret = NoItem)

\* Position 0 of an array whose logical count is 0.
C16_Witness ==
    /\ last.op = "GetAt"
    /\ last.acc = flexible_items
    /\ Get(last.acc.count, last.pre) = 0
    /\ last.arg.pos = 0
    /\ trapped

\* C20: count truncation.  SetAll(r, values, true) passes
\* values.size() + min_fixed_count to the Set of a w-bit count Field, which
\* keeps it modulo 2^w: the member holds the (byte-swapped, for a non-native
\* field) remainder, and when the sum reaches 2^w the count read back
\* is 2^w less than the sum.
C20_CountTruncation ==
    (IsSetAllWithCount /\ last.acc.count.kind = "Field")
    => LET sum == Len(last.arg.vals) + last.acc.min_fixed_count
           w == last.acc.count.bits
           kept == sum % (2 ^ w)
       IN  /\ obj[last.acc.count.field] =
                 IF last.acc.count.endian = native \/ w <= CHAR_BIT
                 THEN kept
                 ELSE Swap16(kept)
           /\ (sum >= 2 ^ w
                 => Get(last.acc.count, obj) = sum - 2 ^ w)
           /\ (sum < 2 ^ w <=> Get(last.acc.count, obj) = sum)

\* Two elements over the baseline 254 give 256, stored as 0: below 254.
C20_Witness ==
    /\ last.op = "SetAll"
    /\ last.arg.update_count
    /\ last.acc = byte_items
    /\ Len(last.arg.vals) = 2
    /\ obj.byte_item_count = 0
    /\ Get(last.acc.count, obj) < last.acc.min_fixed_count


\* C22: flexible-array round trip.  With a count accessor that is a Field
\* (native or non-native byte order) wide enough for values.size() +
\* min_fixed_count, after SetAll(r, values, true) GetAll(r) returns values,
\* same length and same elements in the same order, whatever the count and
\* the elements of r were before; the elements at positions >= values.size()
\* and every member other than the array and the count are unchanged.
C22_FlexibleRoundTrip ==
    (/\ IsSetAllWithCount
     /\ last.acc.count.kind = "Field"
     /\ Len(last.arg.vals) + last.acc.min_fixed_count
           < 2 ^ last.acc.count.bits)
    => LET a == last.acc
           vals == last.arg.vals
       IN  /\ GetAll(a, obj) = Returned(vals)
           /\ FlexibleArrayField_Get(a, obj) = Returned(vals)
           /\ Len(obj.items) = Len(last.pre.items)
           /\ \A i \in (Len(vals) + 1) .. Len(obj.items) :
                 obj.items[i] = last.pre.items[i]
           /\ \A f \in (DOMAIN obj) \ {"items", a.count.field} :
                 obj[f] = last.pre[f]

\* Two elements written over a record that held three others.
C22_Witness ==
    /\ last.op = "SetAll"
    /\ last.arg.update_count
    /\ last.acc = flexible_items
    /\ last.acc.count.endian # native
    /\ Len(last.arg.vals) = 2
    /\ Get(last.acc.count, last.pre) = MaxItems
    /\ last.arg.vals[1] # last.arg.vals[2]
    /\ \A i \in 1 .. 2 : last.pre.items[i] # last.arg.vals[i]
    /\ GetAll(last.acc, obj).val = last.arg.vals
    /\ obj.items[MaxItems] = last.pre.items[MaxItems]

(***************************************************************************)
(* Two threads calling BitField::Set on sibling bit-fields of one parent.  *)
(* The call has no lock: it loads the parent, changes its own bits in a    *)
(* local copy and stores the parent back, so the load and the store of     *)
(* the two calls interleave freely.                                        *)
(***************************************************************************)
Threads == {1, 2}

\* The local copy of the parent with every other bit cleared.
BitField_Modify_Overwrite(a, field, val) ==
    IF a.isBool
    THEN IF val THEN SetBit(0, a.bit_offset) ELSE 0
    ELSE SetBits(0, Narrow(val, a.parent.bits), a.bit_offset, a.bit_width)

\* The local copy of the parent after BitField::Set has changed its bits.
BitField_Modify(a, field, val) ==
    IF a.isBool
    THEN IF val THEN SetBit(field, a.bit_offset)
                ELSE ClearBit(field, a.bit_offset)
    ELSE SetBits(field, Narrow(val, a.parent.bits),
                 a.bit_offset, a.bit_width)

\* Pairs of distinct bit-fields of `version` with disjoint bit ranges.
SiblingPairs ==
    {<<major_version, minor_version>>, <<minor_version, major_version>>,
     <<major_version, patch_version>>, <<patch_version, major_version>>,
     <<major_version, is_version_first_bit_set>>,
     <<is_version_first_bit_set, major_version>>}

\* The values a call passes that fit the bit-field.
FittingValues(a) == {v \in BitFieldValues(a) : ValidValue(a, v)}

\* A thread about to call a.Set(obj, val).
SetCall(a, val) == [pc |-> "read", acc |-> a, val |-> val, field |-> 0]

InitBitRace ==
    /\ obj \in {Packet(ver, MaxItems, DefaultItems) : ver \in WordValues}
    /\ last = NoCall @@ [pre |-> obj]
    /\ trapped = FALSE
    /\ \E pair \in SiblingPairs :
         \E v1 \in FittingValues(pair[1]), v2 \in FittingValues(pair[2]) :
            threads = [call |-> [t \in Threads |->
                                    SetCall(pair[t], IF t = 1 THEN v1 ELSE v2)],
                       overlapped |-> FALSE]

\* auto field {parent_.Get(obj)};
BitSetRead(t) ==
    /\ threads.call[t].pc = "read"
    /\ threads' =
         [call |-> [threads.call EXCEPT
                      ![t].field = Get(threads.call[t].acc.parent, obj),
                      ![t].pc = "write"],
          overlapped |-> threads.overlapped
                           \/ \E u \in Threads \ {t} :
                                 threads.call[u].pc = "write"]
    /\ UNCHANGED <<obj, last, trapped>>

\* The change of the local copy, then parent_.Set(obj, field).
BitSetWrite(t) ==
    /\ threads.call[t].pc = "write"
    /\ LET c == threads.call[t]
       IN  obj' = Set(c.acc.parent, obj, BitField_Modify(c.acc, c.field, c.val))
    /\ threads' = [threads EXCEPT !.call[t].pc = "done"]
    /\ UNCHANGED <<last, trapped>>

NextBitRace ==
    \/ \E t \in Threads : BitSetRead(t)
    \/ \E t \in Threads : BitSetWrite(t)

SpecBitRace == InitBitRace /\ [][NextBitRace]_vars

\* Both calls have returned.
BothSetsDone == \A t \in Threads : threads.call[t].pc = "done"

\* Thread t's value is what its bit-field reads back.
ValuePresent(t) == Get(threads.call[t].acc, obj) = threads.call[t].val

\* C13: writes to sibling bit-fields of one parent are not atomic.  When the
\* two calls are serialized (neither loads the parent between the other's
\* load and store) both written values are present afterwards and the bits
\* of the parent outside both bit-fields are the initial ones; the witness
\* is the state the unserialized calls reach, where one of the two written
\* values is lost.
C13_SerializedSetsKeepBoth ==
    (BothSetsDone /\ ~threads.overlapped)
        => /\ \A t \in Threads : ValuePresent(t)
           /\ \A i \in 0 .. 15 :
                (\A t \in Threads :
                    LET a == threads.call[t].acc
                    IN  i < a.bit_offset \/ i >= a.bit_offset + a.bit_width)
                    => Bit(Get(version, obj), i) = Bit(Get(version, last.pre), i)

C13_Witness ==
    /\ BothSetsDone
    /\ threads.overlapped
    /\ \E t \in Threads : ~ValuePresent(t)
    /\ \E t \in Threads :
         /\ ValuePresent(t)
         /\ Get(threads.call[t].acc, last.pre) # threads.call[t].val


(***************************************************************************)
(* One thread calling SetAll while two other threads read the same record. *)
(* SetAll copies the elements one by one and then stores the count; the    *)
(* first reader calls GetAll (count, then elements), the second reader     *)
(* calls GetAt and then the count accessor's Get (element, then count).    *)
(* Nothing synchronizes the three.                                         *)
(***************************************************************************)
\* SetAll storing the count before it copies the elements.
SetAll_Step_CountFirst(a, o, vals, update_count, pc) ==
    IF pc = 0
    THEN IF update_count
         THEN Set(a.count, o, Len(vals) + a.min_fixed_count)
         ELSE o
    ELSE [o EXCEPT !.items[pc] = vals[pc]]

\* SetAll storing the number of elements without the baseline.
SetAll_Step_NoBaseline(a, o, vals, update_count, pc) ==
    IF pc < Len(vals)
    THEN [o EXCEPT !.items[pc + 1] = vals[pc + 1]]
    ELSE IF update_count THEN Set(a.count, o, Len(vals)) ELSE o

\* The record after the step of SetAll at position pc: the copy of element
\* pc (from 0) while elements are left, then the store of the count.
SetAll_Step(a, o, vals, update_count, pc) ==
    IF pc < Len(vals)
    THEN [o EXCEPT !.items[pc + 1] = vals[pc + 1]]
    ELSE IF update_count
         THEN Set(a.count, o, Len(vals) + a.min_fixed_count)
         ELSE o

\* The position of a SetAll call that has returned.
SetAllDone(vals) == Len(vals) + 1

\* The flexible arrays whose count is a member of the record.
RacedArrays == {flexible_items, byte_items}

\* The positions the second reader asks for.
RacedPositions == 0 .. 1

InitSetAllRace ==
    /\ obj \in {Packet(4660, n, DefaultItems) : n \in {1, MaxItems}}
    /\ last = NoCall @@ [pre |-> obj]
    /\ trapped = FALSE
    /\ \E a \in RacedArrays, vals \in ItemSeqs, update_count \in BOOLEAN,
          pos \in RacedPositions :
         threads =
            [acc |-> a,
             writer |-> [pc |-> 0, vals |-> vals, update_count |-> update_count],
             reader |-> [pc |-> "count", count |-> 0, ret |-> <<>>,
                         trap |-> FALSE, w_start |-> 0, overlapped |-> FALSE],
             peeker |-> [pc |-> "at_count", pos |-> pos, elem |-> NoItem,
                         count |-> 0, trap |-> FALSE, w_start |-> 0,
                         overlapped |-> FALSE]]

\* Whether SetAll is between its first and its last store.
WriterBusy ==
    threads.writer.pc \notin {0, SetAllDone(threads.writer.vals)}

\* One store of SetAll.
SetAllStep ==
    /\ ~trapped
    /\ threads.writer.pc < SetAllDone(threads.writer.vals)
    /\ LET w == threads.writer
       IN  obj' = SetAll_Step(threads.acc, obj, w.vals, w.update_count, w.pc)
    /\ threads' = [threads EXCEPT !.writer.pc = @ + 1]
    /\ UNCHANGED <<last, trapped>>

\* GetAll: the load of the count and the assertion on it.
GetAllReadCount ==
    /\ ~trapped
    /\ threads.reader.pc = "count"
    /\ LET a == threads.acc
           total_count == Get(a.count, obj)
           count == total_count - a.min_fixed_count
       IN  /\ trapped' = (total_count < a.min_fixed_count)
           /\ threads' =
                [threads EXCEPT
                   !.reader.trap = trapped',
                   !.reader.count = IF trapped' THEN 0 ELSE count,
                   !.reader.pc = IF ~trapped' /\ count > 0
                                 THEN "items" ELSE "done",
                   !.reader.w_start = threads.writer.pc,
                   !.reader.overlapped = WriterBusy]
    /\ UNCHANGED <<obj, last>>

\* GetAll: the load of the next element into the returned vector.
GetAllReadItem ==
    /\ ~trapped
    /\ threads.reader.pc = "items"
    /\ LET r == threads.reader
           ret == Append(r.ret, obj.items[Len(r.ret) + 1])
       IN  threads' =
             [threads EXCEPT
                !.reader.ret = ret,
                !.reader.pc = IF Len(ret) = r.count THEN "done" ELSE "items",
                !.reader.overlapped = @ \/ threads.writer.pc # r.w_start]
    /\ UNCHANGED <<obj, last, trapped>>

\* GetAt: the load of the count and the two assertions.
GetAtReadCount ==
    /\ ~trapped
    /\ threads.peeker.pc = "at_count"
    /\ LET a == threads.acc
           total_count == Get(a.count, obj)
       IN  /\ trapped' = (\/ total_count < a.min_fixed_count
                          \/ threads.peeker.pos
                               >= total_count - a.min_fixed_count)
           /\ threads' =
                [threads EXCEPT
                   !.peeker.trap = trapped',
                   !.peeker.pc = IF trapped' THEN "done" ELSE "at_item",
                   !.peeker.w_start = threads.writer.pc,
                   !.peeker.overlapped = WriterBusy]
    /\ UNCHANGED <<obj, last>>

\* GetAt: the load of the element.
GetAtReadItem ==
    /\ ~trapped
    /\ threads.peeker.pc = "at_item"
    /\ threads' =
         [threads EXCEPT
            !.peeker.elem = obj.items[threads.peeker.pos + 1],
            !.peeker.pc = "count",
            !.peeker.overlapped = @ \/ threads.writer.pc # threads.peeker.w_start]
    /\ UNCHANGED <<obj, last, trapped>>

\* The count accessor's Get, called after GetAt has returned.
CountGet ==
    /\ ~trapped
    /\ threads.peeker.pc = "count"
    /\ threads' =
         [threads EXCEPT
            !.peeker.count = Get(threads.acc.count, obj),
            !.peeker.pc = "done",
            !.peeker.overlapped = @ \/ threads.writer.pc # threads.peeker.w_start]
    /\ UNCHANGED <<obj, last, trapped>>

NextSetAllRace ==
    \/ SetAllStep
    \/ GetAllReadCount
    \/ GetAllReadItem
    \/ GetAtReadCount
    \/ GetAtReadItem
    \/ CountGet

SpecSetAllRace == InitSetAllRace /\ [][NextSetAllRace]_vars


\* The record before SetAll started, and the one a whole SetAll leaves.
BeforeSetAll == last.pre

AfterSetAll ==
    SetAll(threads.acc, last.pre, threads.writer.vals,
           threads.writer.update_count)

\* What a reader that started at the writer's position w_start must see when
\* the writer did not move during the read.
Snapshot(w_start) == IF w_start = 0 THEN BeforeSetAll ELSE AfterSetAll

\* The count this SetAll call stores, as the count accessor returns it.
NewCount ==
    (Len(threads.writer.vals) + threads.acc.min_fixed_count)
        % (2 ^ threads.acc.count.bits)

OldCount == Get(threads.acc.count, BeforeSetAll)

\* C14: SetAll(r, values, true) is not atomic with respect to a concurrent
\* reader.  A GetAll, or a GetAt followed by a read of the count, that does
\* not overlap the stores of SetAll returns what the record held before the
\* call or what it holds after it; the witness is the state where both
\* overlapping readers have returned a torn read: GetAll the new elements
\* under the stale count, and the other reader a stale element with the new
\* count.
C14_SerializedReadIsConsistent ==
    /\ (threads.reader.pc = "done" /\ ~threads.reader.overlapped)
        => LET r == GetAll(threads.acc, Snapshot(threads.reader.w_start))
           IN  /\ threads.reader.trap = r.trap
               /\ ~r.trap => threads.reader.ret = r.val
    /\ (threads.peeker.pc = "done" /\ ~threads.peeker.overlapped)
        => LET snap == Snapshot(threads.peeker.w_start)
               r == GetAt(threads.acc, snap, threads.peeker.pos)
           IN  /\ threads.peeker.trap = r.trap
               /\ ~r.trap => /\ threads.peeker.elem = r.val
                             /\ threads.peeker.count
                                  = Get(threads.acc.count, snap)

C14_Witness ==
    /\ threads.writer.update_count
    /\ threads.reader.pc = "done" /\ threads.peeker.pc = "done"
    /\ ~trapped
    /\ NewCount # OldCount
    \* elements updated, count stale
    /\ Len(threads.reader.ret) = OldCount - threads.acc.min_fixed_count
    /\ \A i \in 1 .. Len(threads.reader.ret) :
          i <= Len(threads.writer.vals)
             => threads.reader.ret[i] = threads.writer.vals[i]
    /\ \E i \in 1 .. Len(threads.reader.ret) :
          /\ i <= Len(threads.writer.vals)
          /\ threads.reader.ret[i] # BeforeSetAll.items[i]
    \* count updated, element stale
    /\ threads.peeker.count = NewCount
    /\ threads.peeker.pos < Len(threads.writer.vals)
    /\ threads.peeker.elem = BeforeSetAll.items[threads.peeker.pos + 1]
    /\ threads.peeker.elem # threads.writer.vals[threads.peeker.pos + 1]

\* C19: inside SetAll(r, values, true) every element is copied before the
\* count is stored and none after it: whatever the other threads do, while
\* the call has stores left the count accessor returns the old count, and in
\* every state where it returns the new count written by this call the call
\* has finished and positions 0 .. values.size()-1 hold values.
C19_ElementsBeforeCount ==
    threads.writer.update_count
        => LET w == threads.writer
               count == Get(threads.acc.count, obj)
           IN  /\ w.pc < SetAllDone(w.vals) => count = OldCount
               /\ w.pc = SetAllDone(w.vals) => count = NewCount
               /\ (count = NewCount /\ NewCount # OldCount)
                    => /\ w.pc = SetAllDone(w.vals)
                       /\ SubSeq(obj.items, 1, Len(w.vals)) = w.vals

C19_Witness ==
    /\ threads.writer.update_count
    /\ Get(threads.acc.count, obj) = NewCount
    /\ NewCount # OldCount
    /\ Len(threads.writer.vals) >= 2
    /\ SubSeq(obj.items, 1, Len(threads.writer.vals)) = threads.writer.vals
    /\ SubSeq(BeforeSetAll.items, 1, Len(threads.writer.vals))
         # threads.writer.vals
    /\ threads.reader.pc = "items"


(***************************************************************************)
(* Formatting.  A text is a sequence of pieces: a name or a member of      *)
(* type String is one piece, every other character is a piece of its own.  *)
(***************************************************************************)
RECURSIVE Decimal(_), PrintFields(_, _, _)

\* The bound on the number of accessors in the tuple given to PrintFields.
MaxFields == 3

\* Formatter = std::nullptr_t.
nullptr == "nullptr"

\* The Formattable base of the accessor `proxy`, constructed with a formatter.
Formattable(proxy, formatter) == [proxy |-> proxy, formatter |-> formatter]

\* IsFormattable<RawField>: the unsigned integers and bool have a
\* std::formatter, Item and FlexibleArray<Item> have none.
IsFormattable(a) ==
    \/ a.kind = "BitField"
    \/ a.kind = "Field" /\ a.integral

Digits == <<"0", "1", "2", "3", "4", "5", "6", "7", "8", "9">>

\* std::format("{}", n) of an unsigned integer: its decimal digits.
Decimal(n) ==
    IF n < 10
    THEN <<Digits[n + 1]>>
    ELSE Decimal(n \div 10) \o <<Digits[(n % 10) + 1]>>

\* std::format("{}", val) of the value of the accessor a.
FormatValue(a, val) ==
    IF a.kind = "BitField" /\ a.isBool
    THEN IF val THEN <<"true">> ELSE <<"false">>
    ELSE Decimal(val)

\* fm::FormatType: the characters of the String.
FormatType(t) == <<t>>

\* fm::FormatVersion: std::format("{}: v{}", FormatType(pkg.type), version).
FormatVersion(pkg, ver) ==
    FormatType(pkg.type) \o <<":", " ", "v">> \o Decimal(ver)

\* fm::FormatItems.
FormatItems(items) == <<"{", " ", "items...", " ", "}">>

\* formatter_(obj, val).
ApplyFormatter(formatter, o, val) ==
    CASE formatter = "FormatType" -> FormatType(val)
      [] formatter = "FormatVersion" -> FormatVersion(o, val)
      [] formatter = "FormatItems" -> FormatItems(val)

\* field.Get(obj) of the accessor behind a Formattable.
ProxyGet(a, o) ==
    IF a.kind = "FlexibleArrayField"
    THEN FlexibleArrayField_Get(a, o)
    ELSE Returned(Get(a, o))

\* Format preferring the default string whenever the value is formattable.
Format_DefaultFirst(f, o) ==
    LET r == ProxyGet(f.proxy, o)
    IN  IF r.trap
        THEN AssertFailed(<<>>)
        ELSE IF IsFormattable(f.proxy)
        THEN Returned(<<f.proxy.name, ":", " ">> \o FormatValue(f.proxy, r.val))
        ELSE IF f.formatter # nullptr
        THEN Returned(ApplyFormatter(f.formatter, o, r.val))
        ELSE AssertFailed(<<>>)

\* Formattable::Format(obj).
Format(f, o) ==
    LET r == ProxyGet(f.proxy, o)
    IN  IF r.trap
        THEN AssertFailed(<<>>)
        ELSE IF f.formatter # nullptr
        THEN Returned(ApplyFormatter(f.formatter, o, r.val))
        ELSE IF IsFormattable(f.proxy)
        THEN Returned(<<f.proxy.name, ":", " ">> \o FormatValue(f.proxy, r.val))
        ELSE AssertFailed(<<>>)

\* PrintFields writing the last accessor of the tuple first.
PrintFields_Reversed(os, o, fields) ==
    IF fields = <<>>
    THEN Returned(os)
    ELSE LET text == Format(fields[Len(fields)], o)
         IN  IF text.trap
             THEN AssertFailed(os)
             ELSE PrintFields(os \o text.val \o <<"\n">>, o,
                              SubSeq(fields, 1, Len(fields) - 1))

\* PrintFields(os, obj, fields): the stream after (os << field.Format(obj)
\* << '\n') for each accessor of the tuple from the first to the last.
PrintFields(os, o, fields) ==
    IF fields = <<>>
    THEN Returned(os)
    ELSE LET text == Format(Head(fields), o)
         IN  IF text.trap
             THEN AssertFailed(os)
             ELSE PrintFields(os \o text.val \o <<"\n">>, o, Tail(fields))


\* The accessors of the test with their Formattable bases.
FormattableFields ==
    {Formattable(type, "FormatType"),
     Formattable(version, nullptr),
     Formattable(version_swapped, nullptr),
     Formattable(opposite_endian_item_count, nullptr),
     Formattable(major_version, nullptr),
     Formattable(minor_version, "FormatVersion"),
     Formattable(is_version_first_bit_set, nullptr),
     Formattable(flexible_items, "FormatItems"),
     Formattable(fixed_flexible_items, nullptr)}

\* The accessors the tuples given to PrintFields are made of.
PrintedFields ==
    {Formattable(opposite_endian_item_count, nullptr),
     Formattable(minor_version, "FormatVersion"),
     Formattable(flexible_items, "FormatItems"),
     Formattable(fixed_flexible_items, nullptr)}

FieldTuples == UNION {[1 .. n -> PrintedFields] : n \in 0 .. MaxFields}

\* What the stream holds before PrintFields is called.
Streams == {<<>>, <<"log", "\n">>}

InitFormat ==
    /\ obj \in {[Packet(ver, n, DefaultItems) EXCEPT !.type = t] :
                   ver \in WordValues, n \in {0, MaxItems}, t \in TypeValues}
    /\ last = NoCall @@ [pre |-> obj]
    /\ trapped = FALSE
    /\ threads = NoThreads

CallFormat ==
    /\ ~trapped
    /\ \E f \in FormattableFields :
         LET r == Format(f, obj)
         IN  /\ last' = Call("Format", f, NoArg, r.val)
             /\ trapped' = r.trap
    /\ UNCHANGED <<obj, threads>>

CallPrintFields ==
    /\ ~trapped
    /\ \E os \in Streams, fields \in FieldTuples :
         LET r == PrintFields(os, obj, fields)
         IN  /\ last' = Call("PrintFields", NoArg,
                             [os |-> os, fields |-> fields], r.val)
             /\ trapped' = r.trap
    /\ UNCHANGED <<obj, threads>>

NextFormat ==
    \/ CallFormat
    \/ CallPrintFields

SpecFormat == InitFormat /\ [][NextFormat]_vars


RECURSIVE ParseDecimal(_), TotalLen(_, _)

\* The number a text of decimal digits stands for.
ParseDecimal(text) ==
    IF text = <<>>
    THEN 0
    ELSE ParseDecimal(SubSeq(text, 1, Len(text) - 1)) * 10
           + (CHOOSE d \in 0 .. 9 : Digits[d + 1] = text[Len(text)])

\* Whether the text is the decimal form of the unsigned integer n.
IsDecimalOf(text, n) ==
    /\ text # <<>>
    /\ \A i \in 1 .. Len(text) : \E d \in 0 .. 9 : Digits[d + 1] = text[i]
    /\ Len(text) > 1 => text[1] # "0"
    /\ ParseDecimal(text) = n

\* Whether the text begins with the pieces of head.
StartsWith(text, head) ==
    /\ Len(text) >= Len(head)
    /\ SubSeq(text, 1, Len(head)) = head

\* The text after the first n pieces.
Rest(text, n) == SubSeq(text, n + 1, Len(text))

\* C17: Format(r) of an accessor constructed with a formatter is exactly
\* formatter(r, A.Get(r)) and never the default string, also when the value
\* type is formattable; without a formatter and with a formattable value type
\* it is "<name>: <value>" with <value> the byte-order normalized A.Get(r);
\* Format leaves the record as it was.
C17_Format ==
    (last.op = "Format")
        => LET f == last.acc
               a == f.proxy
               val == ProxyGet(a, last.pre)
               default == <<a.name, ":", " ">>
           IN  /\ obj = last.pre
               /\ (f.formatter # nullptr /\ ~val.trap)
                    => /\ ~trapped
                       /\ last.ret = ApplyFormatter(f.formatter, last.pre, val.val)
                       /\ ~StartsWith(last.ret, default)
                       /\ f.formatter = "FormatType" => last.ret = <<last.pre.type>>
                       /\ f.formatter = "FormatVersion"
                            => /\ StartsWith(last.ret,
                                             <<last.pre.type, ":", " ", "v">>)
                               /\ IsDecimalOf(Rest(last.ret, 4), val.val)
                       /\ f.formatter = "FormatItems"
                            => last.ret = <<"{", " ", "items...", " ", "}">>
               /\ (f.formatter = nullptr /\ IsFormattable(a))
                    => /\ ~trapped
                       /\ StartsWith(last.ret, default)
                       /\ IF a.kind = "BitField" /\ a.isBool
                          THEN Rest(last.ret, 3)
                                 = <<IF val.val THEN "true" ELSE "false">>
                          ELSE IsDecimalOf(Rest(last.ret, 3), val.val)
                       /\ (a.kind = "Field" /\ a.endian # native)
                            => IsDecimalOf(Rest(last.ret, 3),
                                           Swap16(last.pre[a.field]))

C17_Witness ==
    /\ last.op = "Format"
    /\ last.acc = Formattable(minor_version, "FormatVersion")
    /\ IsFormattable(minor_version)
    /\ ~trapped
    /\ last.pre.major_minor_verions = 4660
    /\ last.ret = <<"type", ":", " ", "v", "5", "2">>

\* The pieces of Ai.Format(r) and its line break, for i up to n.
TotalLen(fields, n) ==
    IF n = 0
    THEN 0
    ELSE TotalLen(fields, n - 1) + Len(Format(fields[n], last.pre).val) + 1

\* C18: PrintFields(output, r, [A1, ..., An]) appends Ai.Format(r) and one
\* line break for i = 1..n in the order of the tuple: the stream is what it
\* held before, then A1.Format(r) + "\n" + ... + An.Format(r) + "\n", nothing
\* skipped, repeated or reordered.
C18_PrintFields ==
    (/\ last.op = "PrintFields"
     /\ \A i \in 1 .. Len(last.arg.fields) :
           ~Format(last.arg.fields[i], last.pre).trap)
        => LET os == last.arg.os
               fields == last.arg.fields
               start(i) == Len(os) + TotalLen(fields, i - 1)
           IN  /\ ~trapped
               /\ obj = last.pre
               /\ SubSeq(last.ret, 1, Len(os)) = os
               /\ Len(last.ret) = Len(os) + TotalLen(fields, Len(fields))
               /\ \A i \in 1 .. Len(fields) :
                    LET text == Format(fields[i], last.pre).val
                    IN  /\ SubSeq(last.ret, start(i) + 1, start(i) + Len(text))
                             = text
                        /\ last.ret[start(i) + Len(text) + 1] = "\n"

C18_Witness ==
    /\ last.op = "PrintFields"
    /\ ~trapped
    /\ last.arg.os = <<"log", "\n">>
    /\ last.arg.fields = <<Formattable(opposite_endian_item_count, nullptr),
                           Formattable(minor_version, "FormatVersion"),
                           Formattable(flexible_items, "FormatItems")>>
    /\ last.pre.major_minor_verions = 4660
    /\ last.pre.type = "type"
    /\ Get(opposite_endian_item_count, last.pre) = MaxItems
    /\ last.ret = <<"log", "\n">>
                    \o <<"The number of items", ":", " ">> \o Decimal(MaxItems)
                    \o <<"\n", "type", ":", " ", "v", "5", "2", "\n">>
                    \o <<"{", " ", "items...", " ", "}", "\n">>


(***************************************************************************)
(* Bit-fields nested in bit-fields: BitField::Get and BitField::Set go     *)
(* through the Get and the Set of the parent bit-field.                    *)
(***************************************************************************)
InitNested ==
    /\ obj \in {Packet(ver, MaxItems, DefaultItems) : ver \in WordValues}
    /\ last = NoCall @@ [pre |-> obj]
    /\ trapped = FALSE
    /\ threads = NoThreads

CallNestedGet ==
    /\ ~trapped
    /\ \E a \in NestedBitFields :
          last' = Call("BitField::Get", a, NoArg, BitField_Get(a, obj))
    /\ UNCHANGED <<obj, trapped, threads>>

CallNestedSet ==
    /\ ~trapped
    /\ \E a \in NestedBitFields : \E val \in NestedValues(a) :
          /\ obj' = BitField_Set(a, obj, val)
          /\ last' = Call("BitField::Set", a, val, NoArg)
    /\ UNCHANGED <<trapped, threads>>

NextNested ==
    \/ CallNestedGet
    \/ CallNestedSet

SpecNested == InitNested /\ [][NextNested]_vars


\* The call was made on a bit-field B (o2, w2) whose parent is a bit-field
\* P (o1, w1) over a Field, with o2 + w2 <= w1.
IsNestedCall ==
    /\ last.op \in {"BitField::Get", "BitField::Set"}
    /\ last.acc.parent.kind = "BitField"
    /\ last.acc.parent.parent.kind = "Field"
    /\ last.acc.bit_offset + last.acc.bit_width <= last.acc.parent.bit_width

\* C21: nested bit-fields compose by offset addition.  For B (o2, w2) over
\* P (o1, w1) over the Field F with o2 + w2 <= w1, B.Get(r) is the bits
\* [o1 + o2, o1 + o2 + w2) of F's value, and B.Set(r, v) changes only those
\* bits of F: the other bits of P's range, the bits of F outside P's range
\* and every other member of the record stay as they were.
C21_NestedBitFields ==
    IsNestedCall
        => LET B == last.acc
               F == B.parent.parent
               lo == B.parent.bit_offset + B.bit_offset
               hi == lo + B.bit_width
               before == Get(F, last.pre)
               after == Get(F, obj)
           IN  /\ (last.op = "BitField::Get" /\ ~B.isBool)
                    => last.ret = (after \div (2 ^ lo)) % (2 ^ B.bit_width)
               /\ (last.op = "BitField::Get" /\ B.isBool)
                    => last.ret = (Bit(after, lo) = 1)
               /\ last.op = "BitField::Set"
                    => /\ \A i \in 0 .. (F.bits - 1) :
                             (i < lo \/ i >= hi)
                                => Bit(after, i) = Bit(before, i)
                       /\ OthersUnchanged(F.field)

==============================================================================
